---- MODULE Spec2Model ----
(***************************************************************************)
(* Local service supervisor and database bootstrap engine of the portable  *)
(* PostGIS application: the ProcessManager (process-manager.js), the       *)
(* startPostgres start sequence (services.js) and the IPC handlers of      *)
(* main.js that drive them.                                                *)
(***************************************************************************)
EXTENDS Integers, Sequences, FiniteSets, TLC

\* ------------------------------------------------------------------ bounds
MaxProcs == 2      \* child processes spawned through ProcessManager.start
MaxCalls == 2      \* invocations of the start-postgres IPC handler
MaxOverlap == 2    \* start-postgres invocations in progress at the same time
MaxBase == 2       \* entries of <dataDir>/base in an initial directory

\* --------------------------------------------------------------- constants
Ids == {"postgres", "pgadmin"}
NoProc == 0
Pids == 1..MaxProcs
Calls == 1..MaxOverlap

\* exit codes seen by the close handler: a normal exit status, null when the
\* process was killed by a signal, a negative errno when spawn itself failed
ExitCodes == {0, 1}
NullCode == 128
SpawnErrCode == -2

\* ------------------------------------------------------------------- state
VARIABLES
    processes,      \* ProcessManager.processes: id -> child (NoProc = no key)
    child,          \* every ChildProcess object created by spawn()
    exitNotifs,     \* payloads published with emit('process-exit', ...), per child
    warned,         \* ids for which start logged "Process already running."
    log,            \* lines passed to onLog, per caller
    binExists,      \* PATHS.POSTGRES_BIN exists on disk
    dataDirExists,  \* <PATHS.DATA>/postgres exists
    dataDir,        \* the entries of the data directory (relative paths)
    baseEntries,    \* number of entries of <dataDir>/base
    pc,             \* per start-postgres invocation: where startPostgres is
    found,          \* the directory as the invocation found it
    isInitialized,  \* the local variable of startPostgres
    created,        \* directories the repair loop of the invocation created
    purged,         \* the invocation ran fs.emptyDir on a non-empty directory
    initdb,         \* the initdb child of the invocation
    initdbRuns,     \* how often the invocation spawned initdb
    initdbDir,      \* the directory content at the moment initdb was spawned
    serverPid,      \* the child ProcessManager.start returned to the invocation
    ipcResult,      \* what the start-postgres handler returned
    ncalls,         \* start-postgres requests received so far
    now,            \* waitForPort: milliseconds since it was called
    listening,      \* waitForPort: the port accepts connections
    wstatus,        \* waitForPort: state of the promise it returned
    settledAt,      \* waitForPort: when the promise was settled
    nextTick,       \* waitForPort: when the interval fires next (NoTime = cleared)
    socks,          \* waitForPort: start times of the sockets still connecting
    attempts,       \* waitForPort: connection attempts made
    lastAttempt,    \* waitForPort: start time of the latest attempt
    connectedAt,    \* waitForPort: when the first 'connect' event arrived
    connAttempt,    \* waitForPort: start time of the attempt that connected first
    server,         \* the database server: default database, role, enabled extensions
    catalog,        \* the extensions pg_available_extensions lists
    share,          \* the extension directories of the installation
    rpc,            \* ensureDatabaseFixed: where the run is
    outcome,        \* ensureDatabaseFixed: how the latest run ended
    available,      \* ensureDatabaseFixed: availableExtensions
    sharePath,      \* ensureDatabaseFixed: the extension directory chosen
    cmds,           \* ensureDatabaseFixed: the commands the run has issued
    serverAtStart,  \* the server as the run found it
    pythonExists,   \* the Python interpreter of pgAdmin exists on disk
    entry,          \* where pgAdmin4.py is: "expected", "elsewhere", "missing"
    apc,            \* startPgAdmin: where the call is
    loadProc,       \* startPgAdmin: the setup.py load-servers child
    adminLog,       \* startPgAdmin: lines passed to onLog
    adminPid,       \* startPgAdmin: the child ProcessManager.start returned
    wipe,           \* wipe-data handler: "idle", "waiting" (the 1 s pause), "removed"
    wipeTracked     \* the children that were in the table when the wipe began

pmVars == <<processes, child, exitNotifs, warned>>
fsVars == <<binExists, dataDirExists, dataDir, baseEntries>>
locals == <<found, isInitialized, created, purged, initdb, initdbRuns, initdbDir, serverPid>>
callVars == <<pc, locals, ipcResult, ncalls>>
coreVars == <<pmVars, log, fsVars, callVars>>
waitVars == <<now, listening, wstatus, settledAt, nextTick, socks, attempts, lastAttempt, connectedAt, connAttempt>>
recVars == <<server, catalog, share, rpc, outcome, available, sharePath, cmds, serverAtStart>>
adminVars == <<pythonExists, entry, apc, loadProc, adminLog, adminPid>>
wipeVars == <<wipe, wipeTracked>>
vars == <<coreVars, waitVars, recVars, adminVars, wipeVars>>

NoChild == [id |-> "-", state |-> "none", code |-> 0, signalled |-> FALSE]

Tracked(id) == processes[id] # NoProc

\* the ChildProcess object the next spawn() call returns
NextPid == CHOOSE p \in Pids : child[p].state = "none" /\ \A q \in Pids : q < p => child[q].state # "none"
CanSpawn == \E p \in Pids : child[p].state = "none"

AddLog(l, who, msg) == [l EXCEPT ![who] = @ \cup {msg}]

\* ---------------------------------------------------------- ProcessManager
\* (of the lines the ProcessManager passes to onLog, the state keeps the
\* "already running" warning only)

\* what start(id, ...) returns: the new child, or undefined when id is tracked
StartResult(id) == IF Tracked(id) THEN NoProc ELSE NextPid

\* start without the "if (this.processes[id])" guard
PMStartUnguarded(id, ok) ==
    /\ CanSpawn
    /\ child' = [child EXCEPT ![NextPid] = [id |-> id,
                                            state |-> IF ok THEN "running" ELSE "spawnfail",
                                            code |-> 0, signalled |-> FALSE]]
    /\ processes' = [processes EXCEPT ![id] = NextPid]
    /\ UNCHANGED <<exitNotifs, warned>>

\* start(id, command, args, options, onLog); ok = the OS could create the
\* process (spawn emits 'error' asynchronously otherwise)
PMStart(id, ok) ==
    IF Tracked(id)
    THEN /\ warned' = warned \cup {id}
         /\ UNCHANGED <<processes, child, exitNotifs>>
    ELSE /\ CanSpawn
         /\ child' = [child EXCEPT ![NextPid] = [id |-> id,
                                                 state |-> IF ok THEN "running" ELSE "spawnfail",
                                                 code |-> 0, signalled |-> FALSE]]
         /\ processes' = [processes EXCEPT ![id] = NextPid]
         /\ UNCHANGED <<exitNotifs, warned>>

\* child.kill('SIGTERM'): delivered only to a process that exists
Kill(ch, p) ==
    IF p # NoProc /\ ch[p].state = "running"
    THEN [ch EXCEPT ![p].signalled = TRUE]
    ELSE ch

\* stop(id)
PMStop(id) ==
    /\ child' = Kill(child, processes[id])
    /\ processes' = [processes EXCEPT ![id] = NoProc]
    /\ UNCHANGED <<exitNotifs, warned>>

\* the children after stopAll(): child.kill('SIGTERM') for every key of the table
StopAllChildren ==
    [p \in Pids |-> IF \E id \in Ids : processes[id] = p
                    THEN Kill(child, p)[p] ELSE child[p]]

\* stopAll(): stop(id) for every key of the table
PMStopAll ==
    /\ child' = StopAllChildren
    /\ processes' = [id \in Ids |-> NoProc]
    /\ UNCHANGED <<exitNotifs, warned>>

\* child.on('error'): spawn failed (the handler only logs); Node then closes
\* the child with the errno as its code
OnChildError(p) ==
    /\ child[p].state = "spawnfail"
    /\ child' = [child EXCEPT ![p].state = "exited", ![p].code = SpawnErrCode]
    /\ UNCHANGED <<processes, exitNotifs, warned>>

\* the operating-system process terminates (crash, normal end, or the signal)
ProcessDies(p, code) ==
    /\ child[p].state = "running"
    /\ code \in ExitCodes \/ (child[p].signalled /\ code = NullCode)
    /\ child' = [child EXCEPT ![p].state = "exited", ![p].code = code]
    /\ UNCHANGED <<processes, exitNotifs, warned>>

\* a close handler that publishes nothing for a child that stop() signalled
OnChildCloseSilentAfterStop(p) ==
    /\ child[p].state = "exited"
    /\ child' = [child EXCEPT ![p].state = "closed"]
    /\ processes' = [processes EXCEPT ![child[p].id] = NoProc]
    /\ exitNotifs' = IF child[p].signalled THEN exitNotifs
                     ELSE [exitNotifs EXCEPT ![p] = Append(@, [id |-> child[p].id, code |-> child[p].code])]
    /\ UNCHANGED warned

\* child.on('close', code)
OnChildClose(p) ==
    /\ child[p].state = "exited"
    /\ child' = [child EXCEPT ![p].state = "closed"]
    /\ processes' = [processes EXCEPT ![child[p].id] = NoProc]
    /\ exitNotifs' = [exitNotifs EXCEPT ![p] = Append(@, [id |-> child[p].id, code |-> child[p].code])]
    /\ UNCHANGED warned

\* ------------------------------------------------------ the data directory
Marker == "PG_VERSION"
Conf == "postgresql.conf"
BaseDir == "base"
GlobalDir == "global"
StaleFile == "postmaster.opts"

\* requiredDirs, in the order the repair loop walks them
RequiredDirs ==
    << "base", "global", "pg_commit_ts", "pg_dynshmem", "pg_logical",
       "pg_logical/mappings", "pg_logical/snapshots", "pg_multixact",
       "pg_multixact/members", "pg_multixact/offsets", "pg_notify",
       "pg_replslot", "pg_serial", "pg_snapshots", "pg_stat", "pg_stat_tmp",
       "pg_subtrans", "pg_tblspc", "pg_twophase", "pg_wal",
       "pg_wal/archive_status", "pg_xact" >>

RequiredSet == {RequiredDirs[i] : i \in 1..Len(RequiredDirs)}

\* the directory a nested checklist entry lives in ("" for a top-level one)
Parent(d) ==
    CASE d \in {"pg_logical/mappings", "pg_logical/snapshots"} -> "pg_logical"
      [] d \in {"pg_multixact/members", "pg_multixact/offsets"} -> "pg_multixact"
      [] d = "pg_wal/archive_status" -> "pg_wal"
      [] OTHER -> ""

WithParent(d) == IF Parent(d) = "" THEN {d} ELSE {d, Parent(d)}

\* dbs.length < 2
MinDatabases == 2

\* what a completed initdb leaves: marker, config, the whole checklist, and
\* the default databases under base
FreshCluster == {Marker, Conf} \cup RequiredSet
FreshBaseEntries == MinDatabases + 1

\* what an interrupted initdb leaves: marker and base holding template1 only
PartialCluster == {Marker, BaseDir}
PartialBaseEntries == MinDatabases - 1

\* fs.ensureDir(fullPath) of the repair loop; fail = the directories the file
\* system refuses to create
EnsureDir(dir, d, fail) ==
    IF d \in dir \/ (WithParent(d) \ dir) \cap fail # {} THEN dir ELSE dir \cup WithParent(d)

\* the line the catch block of one iteration logs
RepairError(d) == <<"postgres", "Error repairing directory", d>>

\* the for loop over requiredDirs (each iteration inside its own try/catch)
RECURSIVE RepairLoop(_, _, _)
RepairLoop(dir, i, fail) ==
    IF i > Len(RequiredDirs) THEN dir
    ELSE RepairLoop(EnsureDir(dir, RequiredDirs[i], fail), i + 1, fail)

\* an integrity check that asks for more than MinDatabases entries
IsInitializedOffByOne(dir, nbase) ==
    IF Marker \in dir /\ Conf \in dir
    THEN IF BaseDir \in dir
         THEN ~ (nbase <= MinDatabases \/ GlobalDir \notin dir)
         ELSE FALSE
    ELSE FALSE

\* the isInitialized computation of startPostgres
IsInitialized(dir, nbase) ==
    IF Marker \in dir /\ Conf \in dir
    THEN IF BaseDir \in dir
         THEN ~ (nbase < MinDatabases \/ GlobalDir \notin dir)
         ELSE FALSE
    ELSE FALSE

\* directories the file system may refuse to create during repair
Unwritable == {"global", "pg_wal"}

\* the initial directories: any combination of marker, config, base and
\* global; the regenerable rest of the checklist complete, lacking the WAL
\* area, or absent; a file left by an earlier server run beside the marker
Core == {Marker, Conf, BaseDir, GlobalDir}
Regenerable == RequiredSet \ Core
WalArea == {"pg_wal", "pg_wal/archive_status"}

InitialDirs ==
    {S \cup R \cup (IF Marker \in S THEN {StaleFile} ELSE {}) :
        S \in SUBSET Core, R \in {{}, Regenerable \ WalArea, Regenerable}}

\* --------------------------------------------------------- startPostgres
\* a continuation that runs right after its awaited file operation completes:
\* no other callback of the event loop runs in between
Continuing == \E c \in Calls : pc[c] = "spawnInitdb"
InProgress(c) == pc[c] \notin {"idle", "done", "failed"}

\* what the start-postgres handler returns: { success: true } when the
\* promise of startPostgres resolves, { success: false, error } when it rejects
Pending == [returned |-> FALSE, success |-> FALSE, error |-> ""]
Resolved == [returned |-> TRUE, success |-> TRUE, error |-> ""]
Rejected(msg) == [returned |-> TRUE, success |-> FALSE, error |-> msg]

Finish(c, reply) ==
    /\ pc' = [pc EXCEPT ![c] = IF reply.success THEN "done" ELSE "failed"]
    /\ ipcResult' = [ipcResult EXCEPT ![c] = reply]

\* ipcMain.handle('start-postgres') calling services.startPostgres, up to the
\* binary check. c is the invocation's slot: the lowest one whose previous
\* invocation has returned; overlap = FALSE admits the request only when no
\* other invocation is in progress
IpcStartPostgres(c, overlap) ==
    /\ ~ Continuing
    /\ ncalls < MaxCalls
    /\ ~ InProgress(c)
    /\ \A b \in Calls : b < c => InProgress(b)
    /\ overlap \/ \A b \in Calls : ~ InProgress(b)
    /\ ncalls' = ncalls + 1
    /\ found' = [found EXCEPT ![c] = [dir |-> dataDir, base |-> baseEntries]]
    /\ isInitialized' = [isInitialized EXCEPT ![c] = FALSE]
    /\ created' = [created EXCEPT ![c] = {}]
    /\ purged' = [purged EXCEPT ![c] = FALSE]
    /\ initdb' = [initdb EXCEPT ![c] = "none"]
    /\ initdbRuns' = [initdbRuns EXCEPT ![c] = 0]
    /\ initdbDir' = [initdbDir EXCEPT ![c] = {}]
    /\ serverPid' = [serverPid EXCEPT ![c] = NoProc]
    /\ IF ~ binExists
       THEN /\ log' = [log EXCEPT ![c] = {<<"postgres", "Binary not found">>}]
            /\ Finish(c, Resolved)
       ELSE /\ log' = [log EXCEPT ![c] = {}]
            /\ pc' = [pc EXCEPT ![c] = "ensureDir"]
            /\ ipcResult' = [ipcResult EXCEPT ![c] = Pending]
    /\ UNCHANGED <<pmVars, fsVars>>

\* fs.ensureDir(dataDir) and chmod 0700
EnsureDataDir(c) ==
    /\ ~ Continuing
    /\ pc[c] = "ensureDir"
    /\ dataDirExists' = TRUE
    /\ log' = AddLog(log, c, <<"postgres", "Set permissions 0700">>)
    /\ pc' = [pc EXCEPT ![c] = "repair"]
    /\ UNCHANGED <<pmVars, binExists, dataDir, baseEntries, found, isInitialized, created, purged, initdb, initdbRuns, initdbDir, serverPid, ipcResult, ncalls>>

\* the repair of missing checklist directories, attempted only when the
\* version file exists
RepairDirs(c, fail) ==
    /\ ~ Continuing
    /\ pc[c] = "repair"
    /\ IF dataDirExists /\ Marker \in dataDir
       THEN /\ dataDir' = RepairLoop(dataDir, 1, fail)
            /\ created' = [created EXCEPT ![c] = dataDir' \ dataDir]
            /\ log' = [log EXCEPT ![c] = @ \cup {<<"postgres", "Checking for missing data directories">>}
                                         \cup {RepairError(d) : d \in RequiredSet \ dataDir'}]
       ELSE /\ fail = {}
            /\ UNCHANGED <<dataDir, created, log>>
    /\ pc' = [pc EXCEPT ![c] = "check"]
    /\ UNCHANGED <<pmVars, binExists, dataDirExists, baseEntries, found, isInitialized, purged, initdb, initdbRuns, initdbDir, serverPid, ipcResult, ncalls>>

\* a check that runs the integrity test for the first request only
CheckInitializedOncePerRun(c) ==
    /\ ~ Continuing
    /\ pc[c] = "check"
    /\ LET init == dataDirExists /\ (ncalls > 1 \/ IsInitialized(dataDir, baseEntries)) IN
       /\ isInitialized' = [isInitialized EXCEPT ![c] = init]
       /\ pc' = [pc EXCEPT ![c] = IF init THEN "startServer" ELSE "purge"]
       /\ log' = IF init \/ ~ (dataDirExists /\ Marker \in dataDir /\ Conf \in dataDir) THEN log
                 ELSE AddLog(log, c, <<"postgres", "Re-initializing">>)
    /\ UNCHANGED <<pmVars, fsVars, found, created, purged, initdb, initdbRuns, initdbDir, serverPid, ipcResult, ncalls>>

\* the integrity check that decides between the existing data and a re-init
CheckInitialized(c) ==
    /\ ~ Continuing
    /\ pc[c] = "check"
    /\ LET init == dataDirExists /\ IsInitialized(dataDir, baseEntries) IN
       /\ isInitialized' = [isInitialized EXCEPT ![c] = init]
       /\ pc' = [pc EXCEPT ![c] = IF init THEN "startServer" ELSE "purge"]
       /\ log' = IF init \/ ~ (dataDirExists /\ Marker \in dataDir /\ Conf \in dataDir) THEN log
                 ELSE AddLog(log, c, <<"postgres", "Re-initializing">>)
    /\ UNCHANGED <<pmVars, fsVars, found, created, purged, initdb, initdbRuns, initdbDir, serverPid, ipcResult, ncalls>>

\* a purge that clears the directory only when it holds a version file
PurgeDataDirIfMarker(c) ==
    /\ ~ Continuing
    /\ pc[c] = "purge"
    /\ IF dataDirExists /\ Marker \in dataDir
       THEN /\ dataDir' = {}
            /\ baseEntries' = 0
            /\ purged' = [purged EXCEPT ![c] = TRUE]
            /\ log' = AddLog(log, c, <<"postgres", "Clearing for fresh init">>)
       ELSE UNCHANGED <<dataDir, baseEntries, purged, log>>
    /\ pc' = [pc EXCEPT ![c] = "spawnInitdb"]
    /\ UNCHANGED <<pmVars, binExists, dataDirExists, found, isInitialized, created, initdb, initdbRuns, initdbDir, serverPid, ipcResult, ncalls>>

\* if (!isInitialized): empty the directory when it holds anything
PurgeDataDir(c) ==
    /\ ~ Continuing
    /\ pc[c] = "purge"
    /\ IF dataDirExists /\ dataDir # {}
       THEN /\ dataDir' = {}
            /\ baseEntries' = 0
            /\ purged' = [purged EXCEPT ![c] = TRUE]
            /\ log' = AddLog(log, c, <<"postgres", "Clearing for fresh init">>)
       ELSE UNCHANGED <<dataDir, baseEntries, purged, log>>
    /\ pc' = [pc EXCEPT ![c] = "spawnInitdb"]
    /\ UNCHANGED <<pmVars, binExists, dataDirExists, found, isInitialized, created, initdb, initdbRuns, initdbDir, serverPid, ipcResult, ncalls>>

\* spawn(initdbBin, ['-D', dataDir, ...]); ok = the OS could create the process
\* (the path of initdb is not checked before the spawn)
SpawnInitdb(c, ok) ==
    /\ pc[c] = "spawnInitdb"
    /\ initdb' = [initdb EXCEPT ![c] = IF ok THEN "running" ELSE "spawnfail"]
    /\ initdbRuns' = [initdbRuns EXCEPT ![c] = @ + 1]
    /\ initdbDir' = [initdbDir EXCEPT ![c] = dataDir]
    /\ log' = AddLog(log, c, <<"postgres", "Initializing database cluster">>)
    /\ pc' = [pc EXCEPT ![c] = "initdbWait"]
    /\ UNCHANGED <<pmVars, fsVars, found, isInitialized, created, purged, serverPid, ipcResult, ncalls>>

\* the running initdb process writes the first part of the cluster; it refuses
\* a directory that was not empty when it started
InitdbWrites(c) ==
    /\ initdb[c] = "running"
    /\ initdbDir[c] = {}
    /\ initdb' = [initdb EXCEPT ![c] = "wrote"]
    /\ dataDirExists' = TRUE
    /\ dataDir' = dataDir \cup PartialCluster
    /\ baseEntries' = PartialBaseEntries
    /\ UNCHANGED <<pmVars, log, binExists, pc, found, isInitialized, created, purged, initdbRuns, initdbDir, serverPid, ipcResult, ncalls>>

\* the 'error' event of an initdb child whose spawn failed. initProc has no
\* 'error' listener: the emit throws inside the child's exit callback, so the
\* error is an uncaught exception of the main process and the 'close' event
\* that would settle the promise of startPostgres is never emitted
InitdbError(c) ==
    /\ pc[c] = "initdbWait"
    /\ initdb[c] = "spawnfail"
    /\ initdb' = [initdb EXCEPT ![c] = "errored"]
    /\ UNCHANGED <<pmVars, log, fsVars, pc, found, isInitialized, created, purged, initdbRuns, initdbDir, serverPid, ipcResult, ncalls>>

\* a close handler that resolves whatever the exit code is
InitdbCloseIgnoringCode(c, code) ==
    /\ ~ Continuing
    /\ pc[c] = "initdbWait"
    /\ initdb[c] \in {"running", "wrote"}
    /\ code \in ExitCodes
    /\ code = 0 => initdb[c] = "wrote"
    /\ initdb' = [initdb EXCEPT ![c] = IF code = 0 THEN "succeeded" ELSE "failed"]
    /\ IF code = 0
       THEN /\ dataDir' = dataDir \cup FreshCluster
            /\ baseEntries' = FreshBaseEntries
       ELSE UNCHANGED <<dataDir, baseEntries>>
    /\ log' = AddLog(log, c, <<"postgres", "Initialization complete">>)
    /\ pc' = [pc EXCEPT ![c] = "startServer"]
    /\ UNCHANGED ipcResult
    /\ UNCHANGED <<pmVars, binExists, dataDirExists, found, isInitialized, created, purged, initdbRuns, initdbDir, serverPid, ncalls>>

\* initProc.on('close', code): resolve on 0, reject otherwise; the rejection
\* leaves startPostgres and is caught by the start-postgres handler
InitdbClose(c, code) ==
    /\ ~ Continuing
    /\ pc[c] = "initdbWait"
    /\ initdb[c] \in {"running", "wrote"}
    /\ code \in ExitCodes
    /\ code = 0 => initdb[c] = "wrote"
    /\ initdb' = [initdb EXCEPT ![c] = IF code = 0 THEN "succeeded" ELSE "failed"]
    /\ IF code = 0
       THEN /\ dataDir' = dataDir \cup FreshCluster
            /\ baseEntries' = FreshBaseEntries
            /\ log' = AddLog(log, c, <<"postgres", "Initialization complete">>)
            /\ pc' = [pc EXCEPT ![c] = "startServer"]
            /\ UNCHANGED ipcResult
       ELSE /\ Finish(c, Rejected("initdb failed with code 1"))
            /\ UNCHANGED <<dataDir, baseEntries, log>>
    /\ UNCHANGED <<pmVars, binExists, dataDirExists, found, isInitialized, created, purged, initdbRuns, initdbDir, serverPid, ncalls>>

\* processManager.start('postgres', PATHS.POSTGRES_BIN, ...)
StartServer(c, ok) ==
    /\ ~ Continuing
    /\ pc[c] = "startServer"
    /\ PMStart("postgres", ok)
    /\ serverPid' = [serverPid EXCEPT ![c] = StartResult("postgres")]
    /\ UNCHANGED log
    /\ pc' = [pc EXCEPT ![c] = "waitPort"]
    /\ UNCHANGED <<fsVars, found, isInitialized, created, purged, initdb, initdbRuns, initdbDir, ipcResult, ncalls>>

\* a start sequence that goes on to the reconciliation after a timeout
WaitForPortThenReconcileAnyway(c, resolved) ==
    /\ ~ Continuing
    /\ pc[c] = "waitPort"
    /\ pc' = [pc EXCEPT ![c] = "reconcile"]
    /\ log' = IF resolved THEN log
                 ELSE AddLog(log, c, <<"postgres", "Warning: Post-startup check failed">>)
    /\ UNCHANGED ipcResult
    /\ UNCHANGED <<pmVars, fsVars, found, isInitialized, created, purged, initdb, initdbRuns, initdbDir, serverPid, ncalls>>

\* a start sequence that stops the server when the readiness wait fails
WaitForPortStopsOnTimeout(c, resolved) ==
    /\ ~ Continuing
    /\ pc[c] = "waitPort"
    /\ IF resolved
       THEN /\ pc' = [pc EXCEPT ![c] = "reconcile"]
            /\ UNCHANGED <<log, ipcResult, pmVars>>
       ELSE /\ log' = AddLog(log, c, <<"postgres", "Warning: Post-startup check failed">>)
            /\ Finish(c, Resolved)
            /\ PMStop("postgres")
    /\ UNCHANGED <<fsVars, found, isInitialized, created, purged, initdb, initdbRuns, initdbDir, serverPid, ncalls>>

\* await waitForPort(pgPort): resolved = a connection attempt succeeded before
\* the deadline
WaitForPort(c, resolved) ==
    /\ ~ Continuing
    /\ pc[c] = "waitPort"
    /\ IF resolved
       THEN /\ pc' = [pc EXCEPT ![c] = "reconcile"]
            /\ UNCHANGED <<log, ipcResult>>
       ELSE /\ log' = AddLog(log, c, <<"postgres", "Warning: Post-startup check failed">>)
            /\ Finish(c, Resolved)
    /\ UNCHANGED <<pmVars, fsVars, found, isInitialized, created, purged, initdb, initdbRuns, initdbDir, serverPid, ncalls>>

\* await ensureDatabaseFixed(...); a throw is caught and logged as a warning
EnsureDatabaseFixed(c, ok) ==
    /\ ~ Continuing
    /\ pc[c] = "reconcile"
    /\ log' = IF ok THEN log
                 ELSE AddLog(log, c, <<"postgres", "Warning: Post-startup check failed">>)
    /\ Finish(c, Resolved)
    /\ UNCHANGED <<pmVars, fsVars, found, isInitialized, created, purged, initdb, initdbRuns, initdbDir, serverPid, ncalls>>

\* ------------------------------------------------------ ensureDatabaseFixed
\* the desired extensions, and the two candidate extension directories:
\* share/extension and share/postgresql/extension
Exts == {"postgis", "pgrouting"}
Loc1 == 1
Loc2 == 2

\* the extension directories an installation can have: which of the two exist
\* (the second one possibly empty), where postgis.control lies, whether
\* pgrouting.control lies in one of them
Shares ==
    {sh \in [dir1 : BOOLEAN, dir2 : {"absent", "empty", "files"},
             postgis : SUBSET {Loc1, Loc2}, pgrouting : BOOLEAN] :
        /\ Loc1 \in sh.postgis => sh.dir1
        /\ Loc2 \in sh.postgis => sh.dir2 = "files"
        /\ sh.pgrouting => (sh.dir1 \/ sh.dir2 = "files")}

\* the servers a run can meet: extensions live in the default database, are
\* enabled only when the catalog offers them, pgrouting only on top of postgis
Servers(cat) ==
    {sv \in [db : BOOLEAN, superuser : BOOLEAN, enabled : SUBSET Exts] :
        /\ sv.enabled \subseteq cat
        /\ ~ sv.db => sv.enabled = {}
        /\ "pgrouting" \in sv.enabled => "postgis" \in sv.enabled}

L(msg) == <<"postgres", msg>>
LAt(msg, loc) == <<"postgres", msg, loc>>

\* one step of ensureDatabaseFixed inside invocation c: from one await to the
\* next, logging lines
RStep(c, from, to, lines) ==
    /\ pc[c] = "reconcile"
    /\ rpc = from
    /\ rpc' = to
    /\ outcome' = IF to \in {"returned", "threw"} THEN to
                  ELSE IF from = "idle" THEN "none" ELSE outcome
    /\ log' = [log EXCEPT ![c] = @ \cup lines]
    /\ UNCHANGED <<pmVars, fsVars, callVars, waitVars, adminVars, wipeVars, catalog, share>>

\* the choice between the two extension directories
DetectShare(c) ==
    /\ RStep(c, "idle", "probe",
             IF share.dir2 = "files" THEN {LAt("Using extension directory", Loc2)}
             ELSE IF share.dir2 = "empty" THEN {L("share/postgresql/extension is empty, trying share/extension")}
             ELSE IF share.dir1 THEN {LAt("Using extension directory", Loc1)}
             ELSE {L("Neither extension directory found. Expected at"),
                   LAt("Expected at", Loc1), LAt("Expected at", Loc2)})
    /\ sharePath' = IF share.dir2 = "files" THEN Loc2 ELSE Loc1
    /\ cmds' = {}
    /\ available' = {}
    /\ serverAtStart' = server
    /\ UNCHANGED server

\* 1. psql -d postgres -c 'SELECT 1'; ok = the command reached the server
ProbeDatabase(c, ok) ==
    /\ RStep(c, "probe", IF ok /\ server.db THEN "alter" ELSE "createdb",
             IF ok /\ server.db THEN {L("Database \"postgres\" already exists.")} ELSE {})
    /\ cmds' = cmds \cup {"SELECT 1"}
    /\ UNCHANGED <<server, available, sharePath, serverAtStart>>

\* a createdb handler that logs the "already exists" case but does not record
\* the database as existing
CreateDatabaseStopsOnExisting(c, ok) ==
    /\ RStep(c, "createdb", IF ok /\ ~ server.db THEN "alter" ELSE "returned",
             IF ~ ok THEN {L("Error: Failed to create database \"postgres\""),
                           L("Cannot proceed with extension setup - database does not exist.")}
             ELSE IF server.db THEN {L("Database \"postgres\" already exists."),
                                     L("Cannot proceed with extension setup - database does not exist.")}
             ELSE {L("Created default \"postgres\" database.")})
    /\ cmds' = cmds \cup {"createdb"}
    /\ server' = IF ok THEN [server EXCEPT !.db = TRUE] ELSE server
    /\ UNCHANGED <<available, sharePath, serverAtStart>>

\* createdb postgres: an "already exists" error counts as success; any other
\* failure ends the run
CreateDatabase(c, ok) ==
    /\ RStep(c, "createdb", IF ok THEN "alter" ELSE "returned",
             IF ~ ok THEN {L("Error: Failed to create database \"postgres\""),
                           L("Cannot proceed with extension setup - database does not exist.")}
             ELSE IF server.db THEN {L("Database \"postgres\" already exists.")}
             ELSE {L("Created default \"postgres\" database.")})
    /\ cmds' = cmds \cup {"createdb"}
    /\ server' = IF ok THEN [server EXCEPT !.db = TRUE] ELSE server
    /\ UNCHANGED <<available, sharePath, serverAtStart>>

\* 2. ALTER USER postgres WITH SUPERUSER CREATEDB, issued by every run
AlterRole(c, ok) ==
    /\ RStep(c, "alter", "query",
             IF ok /\ server.db THEN {L("Ensured \"postgres\" user privileges.")}
             ELSE {L("Warning: Failed to update user privileges")})
    /\ cmds' = cmds \cup {"ALTER USER"}
    /\ server' = IF ok /\ server.db THEN [server EXCEPT !.superuser = TRUE] ELSE server
    /\ UNCHANGED <<available, sharePath, serverAtStart>>

\* the lines logged about postgis.control in the file system
ControlFileLines ==
    IF share.postgis # {}
    THEN {LAt("PostGIS control file found at", IF Loc1 \in share.postgis THEN Loc1 ELSE Loc2)}
    ELSE {L("PostGIS control file not found in file system."),
          LAt("Checked", Loc1), LAt("Checked", Loc2)}

\* what queryAvailableExtensions returns: the catalog, or [] on any error
QueryAvailableExtensions(ok) == IF ok /\ server.db THEN catalog ELSE {}

\* a reconciler that does not consult the catalog before it enables postgis
QueryCatalogUnchecked(c, ok) ==
    /\ RStep(c, "query", "checkPostgis",
             {L("Checking available extensions from PostgreSQL catalog...")} \cup ControlFileLines)
    /\ cmds' = cmds \cup {"SELECT pg_available_extensions"}
    /\ available' = QueryAvailableExtensions(ok)
    /\ UNCHANGED <<server, sharePath, serverAtStart>>

\* 3. the catalog query, the look at the file system, and the decision to go
\* on only when the catalog offers postgis
QueryCatalog(c, ok) ==
    LET avail == QueryAvailableExtensions(ok) IN
    /\ RStep(c, "query", IF "postgis" \in avail THEN "checkPostgis" ELSE "returned",
             {L("Checking available extensions from PostgreSQL catalog...")}
             \cup (IF avail # {} THEN {L("Available extensions")}
                   ELSE {L("No PostGIS-related extensions found in PostgreSQL catalog.")})
             \cup ControlFileLines
             \cup (IF "postgis" \in avail THEN {}
                   ELSE {L("PostGIS not available in PostgreSQL. Skipping auto-enable."),
                         LAt("Extension directory", sharePath)}))
    /\ cmds' = cmds \cup {"SELECT pg_available_extensions"}
    /\ available' = avail
    /\ UNCHANGED <<server, sharePath, serverAtStart>>

\* the catch block of the postgis section: after three log lines it evaluates
\* foundControlPath, a const declared inside the block of an earlier if; the
\* ReferenceError leaves ensureDatabaseFixed
PostgisCatch == {L("Failed to enable PostGIS extension"), LAt("Extension directory", sharePath)}

\* a check that is skipped: CREATE EXTENSION is issued by every run
CheckPostgisSkipped(c, ok) ==
    /\ RStep(c, "checkPostgis", "enablePostgis", {L("Enabling PostGIS extension...")})
    /\ UNCHANGED <<cmds, server, available, sharePath, serverAtStart>>

\* SELECT COUNT(*) FROM pg_extension WHERE extname = 'postgis'
CheckPostgis(c, ok) ==
    /\ RStep(c, "checkPostgis",
             IF ~ ok THEN "threw" ELSE IF "postgis" \in server.enabled THEN "pgroutingFiles" ELSE "enablePostgis",
             IF ~ ok THEN PostgisCatch
             ELSE IF "postgis" \in server.enabled THEN {L("PostGIS extension already enabled.")}
             ELSE {L("Enabling PostGIS extension...")})
    /\ cmds' = cmds \cup {"SELECT pg_extension postgis"}
    /\ UNCHANGED <<server, available, sharePath, serverAtStart>>

\* CREATE EXTENSION IF NOT EXISTS postgis
EnablePostgis(c, ok) ==
    LET done == ok /\ "postgis" \in catalog IN
    /\ RStep(c, "enablePostgis", IF done THEN "pgroutingFiles" ELSE "threw",
             IF done THEN {L("PostGIS extension enabled successfully.")} ELSE PostgisCatch)
    /\ cmds' = cmds \cup {"CREATE EXTENSION postgis"}
    /\ server' = IF done THEN [server EXCEPT !.enabled = @ \cup {"postgis"}] ELSE server
    /\ UNCHANGED <<available, sharePath, serverAtStart>>

\* pgrouting is attempted when pgrouting.control lies in a candidate directory
PgroutingFiles(c) ==
    /\ RStep(c, "pgroutingFiles", IF share.pgrouting THEN "checkPgrouting" ELSE "returned",
             IF share.pgrouting THEN {} ELSE {L("pgRouting extension not found (optional).")})
    /\ UNCHANGED <<cmds, server, available, sharePath, serverAtStart>>

\* SELECT COUNT(*) FROM pg_extension WHERE extname = 'pgrouting'
CheckPgrouting(c, ok) ==
    /\ RStep(c, "checkPgrouting",
             IF ok /\ "pgrouting" \notin server.enabled THEN "enablePgrouting" ELSE "returned",
             IF ~ ok THEN {L("Failed to enable pgRouting extension")}
             ELSE IF "pgrouting" \in server.enabled THEN {L("pgRouting extension already enabled.")}
             ELSE {L("Enabling pgRouting extension...")})
    /\ cmds' = cmds \cup {"SELECT pg_extension pgrouting"}
    /\ UNCHANGED <<server, available, sharePath, serverAtStart>>

\* CREATE EXTENSION IF NOT EXISTS pgrouting (it needs postgis in the database)
EnablePgrouting(c, ok) ==
    LET done == ok /\ "pgrouting" \in catalog /\ "postgis" \in server.enabled IN
    /\ RStep(c, "enablePgrouting", "returned",
             IF done THEN {L("pgRouting extension enabled successfully.")}
             ELSE {L("Failed to enable pgRouting extension")})
    /\ cmds' = cmds \cup {"CREATE EXTENSION pgrouting"}
    /\ server' = IF done THEN [server EXCEPT !.enabled = @ \cup {"pgrouting"}] ELSE server
    /\ UNCHANGED <<available, sharePath, serverAtStart>>

\* ensureDatabaseFixed has returned or thrown: startPostgres resumes
ReconcileReturns(c) ==
    /\ rpc \in {"returned", "threw"}
    /\ EnsureDatabaseFixed(c, rpc = "returned")
    /\ rpc' = "idle"
    /\ UNCHANGED <<waitVars, adminVars, wipeVars, server, catalog, share, outcome, available, sharePath, cmds, serverAtStart>>

Reconcile(c) ==
    \/ DetectShare(c)
    \/ \E ok \in BOOLEAN : ProbeDatabase(c, ok)
    \/ \E ok \in BOOLEAN : CreateDatabase(c, ok)
    \/ \E ok \in BOOLEAN : AlterRole(c, ok)
    \/ \E ok \in BOOLEAN : QueryCatalog(c, ok)
    \/ \E ok \in BOOLEAN : CheckPostgis(c, ok)
    \/ \E ok \in BOOLEAN : EnablePostgis(c, ok)
    \/ PgroutingFiles(c)
    \/ \E ok \in BOOLEAN : CheckPgrouting(c, ok)
    \/ \E ok \in BOOLEAN : EnablePgrouting(c, ok)
    \/ ReconcileReturns(c)

\* the specifications that do not look inside ensureDatabaseFixed
NoReconcile ==
    /\ catalog = Exts
    /\ share = [dir1 |-> TRUE, dir2 |-> "absent", postgis |-> {Loc1}, pgrouting |-> TRUE]
    /\ server = [db |-> TRUE, superuser |-> TRUE, enabled |-> {}]
    /\ rpc = "idle"
    /\ outcome = "none"
    /\ available = {}
    /\ sharePath = Loc1
    /\ cmds = {}
    /\ serverAtStart = server

\* ------------------------------------------------------------- waitForPort
\* the timing of waitForPort(port), in milliseconds since the call. Timers
\* fire when they are due; time advances in steps of TimeStep
IntervalMs == 500
SocketTimeoutMs == 200
DeadlineMs == 30000
TimeStep == SocketTimeoutMs \div 2
Horizon == DeadlineMs + 2 * IntervalMs
NoTime == -1

TimerDue == nextTick = now \/ \E s \in socks : s + SocketTimeoutMs = now

\* resolve() / reject(): a promise settles once, later calls are no-ops
Settle(how) ==
    IF wstatus = "pending"
    THEN wstatus' = how /\ settledAt' = now
    ELSE UNCHANGED <<wstatus, settledAt>>

\* an interval callback that never gives up
WaitTickWithoutDeadline ==
    /\ nextTick = now
    /\ socks' = socks \cup {now}
    /\ attempts' = attempts + 1
    /\ lastAttempt' = now
    /\ nextTick' = now + IntervalMs
    /\ UNCHANGED <<wstatus, settledAt>>
    /\ UNCHANGED <<now, listening, connectedAt, connAttempt>>

\* the setInterval callback: a new socket with its own timeout starts to
\* connect, then the deadline is checked
WaitTick ==
    /\ nextTick = now
    /\ socks' = socks \cup {now}
    /\ attempts' = attempts + 1
    /\ lastAttempt' = now
    /\ IF now > DeadlineMs
       THEN /\ nextTick' = NoTime
            /\ Settle("rejected")
       ELSE /\ nextTick' = now + IntervalMs
            /\ UNCHANGED <<wstatus, settledAt>>
    /\ UNCHANGED <<now, listening, connectedAt, connAttempt>>

\* socket.on('connect'): destroy the socket, clear the interval, resolve
SockConnect(s) ==
    /\ s \in socks
    /\ listening
    /\ socks' = socks \ {s}
    /\ nextTick' = NoTime
    /\ Settle("resolved")
    /\ IF connectedAt = NoTime
       THEN connectedAt' = now /\ connAttempt' = s
       ELSE UNCHANGED <<connectedAt, connAttempt>>
    /\ UNCHANGED <<now, listening, attempts, lastAttempt>>

\* socket.on('error'): the connection was refused or reset; destroy the socket
SockError(s) ==
    /\ s \in socks
    /\ socks' = socks \ {s}
    /\ UNCHANGED <<now, listening, wstatus, settledAt, nextTick, attempts, lastAttempt, connectedAt, connAttempt>>

\* socket.on('timeout'): nothing happened for SocketTimeoutMs; destroy the socket
SockTimeout(s) ==
    /\ s \in socks
    /\ s + SocketTimeoutMs = now
    /\ socks' = socks \ {s}
    /\ UNCHANGED <<now, listening, wstatus, settledAt, nextTick, attempts, lastAttempt, connectedAt, connAttempt>>

\* the server starts or stops accepting connections on the port
PortChanges ==
    /\ listening' = ~ listening
    /\ UNCHANGED <<now, wstatus, settledAt, nextTick, socks, attempts, lastAttempt, connectedAt, connAttempt>>

\* time passes; no timer is overrun
TimePasses ==
    /\ ~ TimerDue
    /\ now < Horizon
    /\ now' = now + TimeStep
    /\ UNCHANGED <<listening, wstatus, settledAt, nextTick, socks, attempts, lastAttempt, connectedAt, connAttempt>>

\* waitForPort has just been called: the interval is armed, nothing else
InitWait ==
    /\ now = 0
    /\ listening \in BOOLEAN
    /\ wstatus = "pending"
    /\ settledAt = NoTime
    /\ nextTick = IntervalMs
    /\ socks = {}
    /\ attempts = 0
    /\ lastAttempt = NoTime
    /\ connectedAt = NoTime
    /\ connAttempt = NoTime

\* the specifications that do not look inside waitForPort
NoWait ==
    /\ now = 0
    /\ listening = FALSE
    /\ wstatus = "pending"
    /\ settledAt = NoTime
    /\ nextTick = NoTime
    /\ socks = {}
    /\ attempts = 0
    /\ lastAttempt = NoTime
    /\ connectedAt = NoTime
    /\ connAttempt = NoTime

\* ------------------------------------------------------------ startPgAdmin
ALine(msg) == <<"pgadmin", msg>>

\* one step of startPgAdmin that does not touch the ProcessManager
AStep(from, to, lines) ==
    /\ apc = from
    /\ apc' = to
    /\ adminLog' = adminLog \cup lines
    /\ UNCHANGED <<coreVars, waitVars, recVars, wipeVars, pythonExists, entry>>

\* the call of services.startPgAdmin, up to the check of the interpreter
IpcStartPgAdmin ==
    /\ AStep("idle", IF pythonExists THEN "locate" ELSE "done",
             IF pythonExists THEN {} ELSE {ALine("Python not found")})
    /\ UNCHANGED <<loadProc, adminPid>>

\* the search for pgAdmin4.py: the expected layout, then the walk through the
\* Python directory; a search that finds nothing leaves pgAdminPy at the
\* expected path and the function goes on
LocateEntrypoint ==
    /\ AStep("locate", "register",
             CASE entry = "expected" -> {}
               [] entry = "elsewhere" -> {ALine("Error: pgAdmin4.py not found"), ALine("Found pgAdmin4.py")}
               [] OTHER -> {ALine("Error: pgAdmin4.py not found")})
    /\ UNCHANGED <<loadProc, adminPid>>

\* config_local.py and servers.json are written, then setup.py load-servers
\* is spawned; ok = the OS could create the process
SpawnLoadServers(ok) ==
    /\ AStep("register", "loadWait", {ALine("Registering local server...")})
    /\ loadProc' = IF ok THEN "running" ELSE "spawnfail"
    /\ UNCHANGED adminPid

\* loadProc.on('close', code): resolve either way. Without pgAdmin4.py there
\* is no setup.py beside it and the interpreter exits with an error
LoadServersClose(code) ==
    /\ loadProc = "running"
    /\ entry = "missing" => code # 0
    /\ AStep("loadWait", "start",
             IF code = 0 THEN {ALine("Server registered successfully.")}
             ELSE {ALine("Failed to register server")})
    /\ loadProc' = "exited"
    /\ UNCHANGED adminPid

\* the 'error' event of a load-servers child whose spawn failed: loadProc has
\* no 'error' listener, and 'close' is never emitted
LoadServersError ==
    /\ loadProc = "spawnfail"
    /\ AStep("loadWait", "loadWait", {})
    /\ loadProc' = "errored"
    /\ UNCHANGED adminPid

\* processManager.start('pgadmin', pythonBin, ['-u', pgAdminPy], ...)
StartPgAdminProcess(ok) ==
    /\ apc = "start"
    /\ apc' = "done"
    /\ PMStart("pgadmin", ok)
    /\ adminPid' = StartResult("pgadmin")
    /\ adminLog' = adminLog \cup {ALine("Starting pgAdmin")}
    /\ UNCHANGED <<log, fsVars, callVars, waitVars, recVars, wipeVars, pythonExists, entry, loadProc>>

StartPgAdmin ==
    \/ IpcStartPgAdmin
    \/ LocateEntrypoint
    \/ \E ok \in BOOLEAN : SpawnLoadServers(ok)
    \/ \E code \in ExitCodes : LoadServersClose(code)
    \/ LoadServersError
    \/ \E ok \in BOOLEAN : StartPgAdminProcess(ok)

\* the specifications that do not call startPgAdmin
NoAdmin ==
    /\ pythonExists = TRUE
    /\ entry = "expected"
    /\ apc = "idle"
    /\ loadProc = "none"
    /\ adminLog = {}
    /\ adminPid = NoProc

\* ------------------------------------------------------------ IPC handlers
\* ipcMain.handle('stop-postgres') -> services.stopPostgres()
IpcStopPostgres ==
    /\ ~ Continuing
    /\ Tracked("postgres")
    /\ PMStop("postgres")
    /\ UNCHANGED <<log, fsVars, callVars>>

\* the methods the ProcessManager class defines
ProcessManagerMethods == {"start", "stop", "stopAll"}

\* ipcMain.handle('get-postgres-status'): what a request made in the current
\* state returns. processManager.isRunning('postgres') is a call of a method
\* the object does not have: it throws a TypeError, which rejects the
\* handler's promise
IpcGetPostgresStatus ==
    IF "isRunning" \in ProcessManagerMethods
    THEN (IF Tracked("postgres") THEN "running: true" ELSE "running: false")
    ELSE "TypeError"

\* ------------------------------------------------- events of the children
ChildError(p) ==
    /\ ~ Continuing
    /\ OnChildError(p)
    /\ UNCHANGED <<log, fsVars, callVars>>

ChildDies(p, code) ==
    /\ ProcessDies(p, code)
    /\ UNCHANGED <<log, fsVars, callVars>>

ChildClose(p) ==
    /\ ~ Continuing
    /\ OnChildClose(p)
    /\ UNCHANGED <<log, fsVars, callVars>>

\* ------------------------------------- direct use of the ProcessManager API
ApiStart(id, ok) ==
    /\ PMStart(id, ok)
    /\ UNCHANGED <<log, fsVars, callVars>>

ApiStop(id) ==
    /\ PMStop(id)
    /\ UNCHANGED <<log, fsVars, callVars>>

ApiStopAll ==
    /\ PMStopAll
    /\ UNCHANGED <<log, fsVars, callVars>>

\* ------------------------------------------------------------- wipe-data
\* ipcMain.handle('wipe-data'), first part: processManager.stopAll(), then the
\* handler awaits a timer of 1000 ms
IpcWipeData ==
    /\ ~ Continuing
    /\ wipe = "idle"
    /\ wipe' = "waiting"
    /\ wipeTracked' = {p \in Pids : \E id \in Ids : processes[id] = p}
    /\ PMStopAll
    /\ UNCHANGED <<log, fsVars, callVars>>

\* second part, when the timer has fired: fs.remove(PATHS.DATA), then the app
\* relaunches and exits (the children are not waited for)
WipeRemove ==
    /\ ~ Continuing
    /\ wipe = "waiting"
    /\ wipe' = "removed"
    /\ dataDirExists' = FALSE
    /\ dataDir' = {}
    /\ baseEntries' = 0
    /\ UNCHANGED <<pmVars, log, binExists, callVars, wipeTracked>>

\* the specifications without a wipe-data request
NoWipe ==
    /\ wipe = "idle"
    /\ wipeTracked = {}

\* ---------------------------------------------------------- specifications
InitPM ==
    /\ processes = [id \in Ids |-> NoProc]
    /\ child = [p \in Pids |-> NoChild]
    /\ exitNotifs = [p \in Pids |-> << >>]
    /\ warned = {}
    /\ log = [c \in Calls |-> {}]

InitCalls ==
    /\ pc = [c \in Calls |-> "idle"]
    /\ found = [c \in Calls |-> [dir |-> {}, base |-> 0]]
    /\ isInitialized = [c \in Calls |-> FALSE]
    /\ created = [c \in Calls |-> {}]
    /\ purged = [c \in Calls |-> FALSE]
    /\ initdb = [c \in Calls |-> "none"]
    /\ initdbRuns = [c \in Calls |-> 0]
    /\ initdbDir = [c \in Calls |-> {}]
    /\ serverPid = [c \in Calls |-> NoProc]
    /\ ipcResult = [c \in Calls |-> Pending]
    /\ ncalls = 0

\* the program starts on any data directory a previous run, an interrupted
\* bootstrap or a partial copy may have left
Init ==
    /\ InitPM
    /\ InitCalls
    /\ binExists \in BOOLEAN
    /\ dataDir \in InitialDirs
    /\ dataDirExists \in (IF dataDir = {} THEN BOOLEAN ELSE {TRUE})
    /\ baseEntries \in (IF BaseDir \in dataDir THEN 0..MaxBase ELSE {0})
    /\ NoWait
    /\ NoReconcile
    /\ NoAdmin
    /\ NoWipe

\* the ProcessManager alone, on a fixed healthy installation
InitAPI ==
    /\ InitPM
    /\ InitCalls
    /\ binExists = TRUE
    /\ dataDir = FreshCluster
    /\ dataDirExists = TRUE
    /\ baseEntries = FreshBaseEntries
    /\ NoWait
    /\ NoReconcile
    /\ NoAdmin
    /\ NoWipe

Events ==
    \/ \E p \in Pids : ChildError(p)
    \/ \E p \in Pids, code \in ExitCodes \cup {NullCode} : ChildDies(p, code)
    \/ \E p \in Pids : ChildClose(p)

Sequence(c) ==
    \/ EnsureDataDir(c)
    \/ \E fail \in SUBSET Unwritable : RepairDirs(c, fail)
    \/ CheckInitialized(c)
    \/ PurgeDataDir(c)
    \/ \E ok \in BOOLEAN : SpawnInitdb(c, ok)
    \/ InitdbWrites(c)
    \/ InitdbError(c)
    \/ \E code \in ExitCodes : InitdbClose(c, code)
    \/ \E ok \in BOOLEAN : StartServer(c, ok)
    \/ \E resolved \in BOOLEAN : WaitForPort(c, resolved)
    \/ \E ok \in BOOLEAN : EnsureDatabaseFixed(c, ok)

\* start-postgres requests issued one after the other, each awaited
Next ==
    /\ \/ \E c \in Calls : IpcStartPostgres(c, FALSE)
       \/ \E c \in Calls : Sequence(c)
       \/ IpcStopPostgres
       \/ Events
    /\ UNCHANGED <<waitVars, recVars, adminVars, wipeVars>>

Spec == Init /\ [][Next]_vars

\* start-postgres requests that overlap (the renderer does not wait for the
\* reply before it sends the next), on a first run (empty data directory)
InitOverlap ==
    /\ InitPM
    /\ InitCalls
    /\ binExists = TRUE
    /\ dataDirExists = TRUE
    /\ dataDir = {} /\ baseEntries = 0
    /\ NoWait
    /\ NoReconcile
    /\ NoAdmin
    /\ NoWipe

NextOverlap ==
    /\ \/ \E c \in Calls : IpcStartPostgres(c, TRUE)
       \/ \E c \in Calls : Sequence(c)
       \/ IpcStopPostgres
       \/ Events
    /\ UNCHANGED <<waitVars, recVars, adminVars, wipeVars>>

SpecOverlap == InitOverlap /\ [][NextOverlap]_vars

NextAPI ==
    /\ \/ \E id \in Ids, ok \in BOOLEAN : ApiStart(id, ok)
       \/ \E id \in Ids : ApiStop(id)
       \/ ApiStopAll
       \/ Events
    /\ UNCHANGED <<waitVars, recVars, adminVars, wipeVars>>

SpecAPI == InitAPI /\ [][NextAPI]_vars

\* waitForPort alone, against a port that opens and closes at any moment
NextWait ==
    /\ \/ WaitTick
       \/ \E s \in socks : SockConnect(s)
       \/ \E s \in socks : SockError(s)
       \/ \E s \in socks : SockTimeout(s)
       \/ PortChanges
       \/ TimePasses
    /\ UNCHANGED <<coreVars, recVars, adminVars, wipeVars>>

InitWaitAlone ==
    /\ InitPM
    /\ InitCalls
    /\ binExists = TRUE
    /\ dataDir = FreshCluster
    /\ dataDirExists = TRUE
    /\ baseEntries = FreshBaseEntries
    /\ InitWait
    /\ NoReconcile
    /\ NoAdmin
    /\ NoWipe

SpecWait == InitWaitAlone /\ [][NextWait]_vars

\* the start sequence with ensureDatabaseFixed step by step, on an empty and
\* on a complete data directory, against every server and installation (the
\* cluster bootstrapped in an empty directory has no extension enabled yet and
\* its bootstrap role is a superuser)
InitReconcile ==
    /\ InitPM
    /\ InitCalls
    /\ binExists = TRUE
    /\ dataDirExists = TRUE
    /\ \/ dataDir = {} /\ baseEntries = 0
       \/ dataDir = FreshCluster /\ baseEntries = FreshBaseEntries
    /\ NoWait
    /\ catalog \in SUBSET Exts
    /\ share \in Shares
    /\ server \in Servers(catalog)
    /\ dataDir = {} => (server.enabled = {} /\ server.superuser)
    /\ rpc = "idle"
    /\ outcome = "none"
    /\ available = {}
    /\ sharePath = Loc1
    /\ cmds = {}
    /\ serverAtStart = server
    /\ NoAdmin
    /\ NoWipe

SequenceToReconcile(c) ==
    \/ EnsureDataDir(c)
    \/ \E fail \in SUBSET Unwritable : RepairDirs(c, fail)
    \/ CheckInitialized(c)
    \/ PurgeDataDir(c)
    \/ \E ok \in BOOLEAN : SpawnInitdb(c, ok)
    \/ InitdbWrites(c)
    \/ InitdbError(c)
    \/ \E code \in ExitCodes : InitdbClose(c, code)
    \/ \E ok \in BOOLEAN : StartServer(c, ok)
    \/ \E resolved \in BOOLEAN : WaitForPort(c, resolved)

\* a start-postgres request; what the previous run of ensureDatabaseFixed
\* left behind is forgotten
StartRequest(c) ==
    /\ IpcStartPostgres(c, FALSE)
    /\ outcome' = "none"
    /\ cmds' = {}
    /\ UNCHANGED <<waitVars, adminVars, wipeVars, server, catalog, share, rpc, available, sharePath, serverAtStart>>

NextReconcile ==
    \/ \E c \in Calls : StartRequest(c)
    \/ (\E c \in Calls : SequenceToReconcile(c)) /\ UNCHANGED <<waitVars, recVars, adminVars, wipeVars>>
    \/ \E c \in Calls : Reconcile(c)

SpecReconcile == InitReconcile /\ [][NextReconcile]_vars

\* one start-pgadmin request beside the primary service, on every installation
InitAdmin ==
    /\ InitPM
    /\ InitCalls
    /\ binExists = TRUE
    /\ dataDir = FreshCluster
    /\ dataDirExists = TRUE
    /\ baseEntries = FreshBaseEntries
    /\ NoWait
    /\ NoReconcile
    /\ pythonExists \in BOOLEAN
    /\ entry \in {"expected", "elsewhere", "missing"}
    /\ apc = "idle"
    /\ loadProc = "none"
    /\ adminLog = {}
    /\ adminPid = NoProc
    /\ NoWipe

NextAdmin ==
    \/ /\ \/ \E ok \in BOOLEAN : ApiStart("postgres", ok)
          \/ ApiStop("postgres")
          \/ Events
       /\ UNCHANGED <<waitVars, recVars, adminVars, wipeVars>>
    \/ StartPgAdmin /\ UNCHANGED <<waitVars, recVars>>

SpecAdmin == InitAdmin /\ [][NextAdmin]_vars

\* start-postgres, stop-postgres and wipe-data requests on a first run and
\* on a complete cluster; nothing runs in the main process after the wipe has
\* made the app exit, the children live on
InitWipe ==
    /\ InitPM
    /\ InitCalls
    /\ binExists = TRUE
    /\ \/ dataDir = {} /\ baseEntries = 0 /\ dataDirExists \in BOOLEAN
       \/ dataDir = FreshCluster /\ baseEntries = FreshBaseEntries /\ dataDirExists = TRUE
    /\ NoWait
    /\ NoReconcile
    /\ NoAdmin
    /\ NoWipe

NextWipe ==
    \/ /\ wipe # "removed"
       /\ \/ \E c \in Calls : IpcStartPostgres(c, FALSE)
          \/ \E c \in Calls : Sequence(c)
          \/ IpcStopPostgres
          \/ \E p \in Pids : ChildError(p)
          \/ \E p \in Pids : ChildClose(p)
       /\ UNCHANGED <<waitVars, recVars, adminVars, wipeVars>>
    \/ (\E p \in Pids, code \in ExitCodes \cup {NullCode} : ChildDies(p, code))
          /\ UNCHANGED <<waitVars, recVars, adminVars, wipeVars>>
    \/ IpcWipeData /\ UNCHANGED <<waitVars, recVars, adminVars>>
    \/ WipeRemove /\ UNCHANGED <<waitVars, recVars, adminVars>>

SpecWipe == InitWipe /\ [][NextWipe]_vars

\* =================================================================== claims

\* ---- C1 (SpecAPI)
\* C1: the table is a map from id to one child, and a start(id) issued while id is
\* tracked is a no-op: every step that creates a child creates it for an id
\* that was not tracked and registers exactly that child; no step replaces the
\* child registered under an id by another one; the step that logs the
\* "already running" warning changes neither table nor children.
C1_RedundantStartIsNoOp ==
    [][ /\ \A p \in Pids :
            (child[p].state = "none" /\ child'[p].state # "none")
                => /\ ~ Tracked(child'[p].id)
                   /\ processes'[child'[p].id] = p
                   /\ \A q \in Pids \ {p} : child'[q] = child[q]
        /\ \A id \in Ids :
            (Tracked(id) /\ processes'[id] # NoProc) => processes'[id] = processes[id]
        /\ warned' # warned => (processes' = processes /\ child' = child /\ exitNotifs' = exitNotifs)
      ]_vars

\* a start(id) was issued while id was tracked, the first child still registered
C1_Witness ==
    /\ "postgres" \in warned
    /\ processes["postgres"] = 1
    /\ child[1].state = "running"
    /\ child[2].state = "none"

\* ---- C2 (SpecAPI)
\* C2: the close event of a child changes no table entry that holds another child:
\* after stop(id), start(id) and the late close of the stopped child, the
\* newer child is still registered.
C2_LateExitKeepsNewerRecord ==
    [][ \A p \in Pids :
            (child[p].state = "exited" /\ child'[p].state = "closed")
                => \A id \in Ids : processes[id] # p => processes'[id] = processes[id]
      ]_vars

\* ---- C3 (SpecAPI)
\* Every child whose close event was handled has exactly one process-exit
\* notification, carrying its id and its exit code, and no other child has
\* any; the step that handles the close event leaves the id untracked.
C3_Notified ==
    \A p \in Pids :
        IF child[p].state = "closed"
        THEN exitNotifs[p] = << [id |-> child[p].id, code |-> child[p].code] >>
        ELSE exitNotifs[p] = << >>

C3_Removed ==
    \A p \in Pids :
        (child[p].state = "exited" /\ child'[p].state = "closed") => processes'[child[p].id] = NoProc

\* C3: every handled exit removes the id from the table and is reported by
\* exactly one process-exit notification {id, code}.
C3_OneNotificationPerExit == [][C3_Removed]_vars /\ []C3_Notified

\* one child was stopped and then exited, another crashed; both are reported
C3_Witness ==
    /\ child[1].state = "closed" /\ child[1].signalled
    /\ child[2].state = "closed" /\ ~ child[2].signalled /\ child[2].code = 1
    /\ Len(exitNotifs[1]) = 1 /\ Len(exitNotifs[2]) = 1
    /\ \A id \in Ids : ~ Tracked(id)

\* ---- C4 (SpecAPI)
\* C4: no record is registered for a child whose spawn failed: whenever id is
\* tracked, the registered child is a process the OS created.
C4_NoRecordAfterFailedSpawn ==
    \A id \in Ids : Tracked(id) => child[processes[id]].state # "spawnfail"

\* ---- C5 (Spec)
\* C5: with the server binary absent, a returned start-postgres has logged the
\* "binary not found" line, has not called the supervisor's start, has left
\* 'postgres' untracked, and a get-postgres-status request answers
\* running: false.
C5_MissingBinaryNotRunning ==
    \A c \in Calls :
        (~ binExists /\ ipcResult[c].returned)
            => /\ <<"postgres", "Binary not found">> \in log[c]
               /\ serverPid[c] = NoProc
               /\ ~ Tracked("postgres")
               /\ IpcGetPostgresStatus = "running: false"

\* ---- C6 (Spec)
\* C6: with the server binary absent, start-postgres returns failure.
C6_MissingBinaryFails ==
    \A c \in Calls :
        (~ binExists /\ ipcResult[c].returned) => ~ ipcResult[c].success

\* ---- C7 (Spec)
\* "initialized" as the design states it, on the directory as found
DesignInitialized(f) ==
    /\ Marker \in f.dir /\ Conf \in f.dir
    /\ BaseDir \in f.dir /\ f.base >= 2
    /\ GlobalDir \in f.dir

Decided(c) == binExists /\ pc[c] \notin {"idle", "ensureDir", "repair", "check"}

\* C7: once the integrity check has run, the invocation treats the directory as
\* initialized iff it was initialized as found; otherwise it purges what it
\* found and bootstraps before the server is started.
C7_InitializedIffFoundComplete ==
    \A c \in Calls :
        Decided(c)
            => /\ isInitialized[c] <=> DesignInitialized(found[c])
               /\ (~ DesignInitialized(found[c]) /\ pc[c] \notin {"purge", "spawnInitdb"})
                      => (initdbRuns[c] = 1 /\ (found[c].dir # {} => purged[c]))

\* ---- C8 (Spec)
\* Bootstrapping(c): the invocation has spawned initdb
Bootstrapping(c) == initdb[c] # "none"

\* C8: initdb is only ever spawned on an empty directory, what the invocation
\* found was purged first, and when initdb has exited with 0 the directory
\* holds the fresh cluster and nothing else.
C8_BootstrapOnEmptyDirectory ==
    \A c \in Calls :
        /\ Bootstrapping(c)
              => /\ initdbDir[c] = {}
                 /\ found[c].dir # {} => purged[c]
        /\ (initdb[c] = "succeeded" /\ InProgress(c))
              => /\ dataDir = FreshCluster
                 /\ baseEntries = FreshBaseEntries

\* scenario B: marker, config and one storage entry, purged and bootstrapped
C8_Witness ==
    \E c \in Calls :
        /\ {Marker, Conf, BaseDir, StaleFile} \subseteq found[c].dir
        /\ found[c].base = 1
        /\ purged[c]
        /\ initdb[c] = "succeeded"
        /\ pc[c] = "waitPort"
        /\ dataDir = FreshCluster

\* ---- C9 (Spec)
\* Repairable(f): complete as found but for some directories of the checklist
Repairable(f) == DesignInitialized(f) /\ RequiredSet \ f.dir # {}

C10_Failed(c) ==
    /\ pc[c] = "failed"
    /\ ipcResult[c] = Rejected("initdb failed with code 1")
    /\ serverPid[c] = NoProc
    /\ initdbRuns[c] = 1

\* C10: when initdb has exited with a non-zero code the invocation is over: it has
\* returned failure with the error, it has spawned no server and run initdb
\* once, and it takes no further step (no server start, no readiness wait, no
\* reconciliation, no second initdb).
C10_BootstrapFailureIsFatal ==
    /\ [](\A c \in Calls : (initdb[c] = "failed" => C10_Failed(c)) /\ initdbRuns[c] <= 1)
    /\ [][ \A c \in Calls :
              (initdb[c] = "failed" /\ ncalls' = ncalls)
                  => (pc'[c] = pc[c] /\ initdb'[c] = initdb[c] /\ serverPid'[c] = serverPid[c]
                      /\ ipcResult'[c] = ipcResult[c]) ]_vars

\* initdb failed after the purge of a corrupt directory
C10_Witness ==
    \E c \in Calls :
        /\ initdb[c] = "failed"
        /\ purged[c]
        /\ ipcResult[c].returned /\ ~ ipcResult[c].success
        /\ \A id \in Ids : ~ Tracked(id)

\* ---- C15 (Spec)
\* C15: a failure to spawn initdb is never an unhandled error, and the start
\* operation it belongs to returns a failure result.
C15_SpawnFailureIsHandled ==
    \A c \in Calls :
        /\ initdb[c] # "errored"
        /\ (initdb[c] = "spawnfail" /\ pc[c] # "initdbWait")
              => (ipcResult[c].returned /\ ~ ipcResult[c].success)

\* ---- C18 (Spec)
\* the decision an invocation took
Decision(c) ==
    IF ~ isInitialized[c] THEN "purged and bootstrapped"
    ELSE IF created[c] = {} THEN "valid" ELSE "repaired in place"

\* the checklist directories whose creation the file system refused
Refused(c) == {d \in RequiredSet : RepairError(d) \in log[c]}

\* the decision as a function of the contents found and of the refused
\* directories
ClassOf(f, refused) ==
    LET after == IF Marker \in f.dir THEN f.dir \cup (RequiredSet \ refused) ELSE f.dir IN
    IF {Marker, Conf, BaseDir, GlobalDir} \subseteq after /\ f.base >= MinDatabases
    THEN (IF after = f.dir THEN "valid" ELSE "repaired in place")
    ELSE "purged and bootstrapped"

C20_RepairFailureEscalates ==
    \A c \in Calls :
        (Refused(c) # {} /\ pc[c] \in {"startServer", "waitPort", "reconcile", "done"})
            => (purged[c] /\ initdb[c] = "succeeded")

\* ---- C17 (SpecAPI)
\* C17: whenever the app closes, the stopAll that runs then sends the
\* termination signal to every child of the app that is still alive (the app
\* can close in any state; stopAll always leaves the table empty).
C17_StopAllStopsEveryChild ==
    \A p \in Pids : StopAllChildren[p].state = "running" => StopAllChildren[p].signalled

\* ---- C11 (SpecWait)
\* one attempt per tick of the interval, the first one interval after the
\* call; no socket stays open longer than its own timeout
C11_Attempts ==
    /\ \A s \in socks : s > 0 /\ s % IntervalMs = 0 /\ now - s <= SocketTimeoutMs
    /\ attempts > 0 => lastAttempt = attempts * IntervalMs
    /\ nextTick # NoTime => nextTick = (attempts + 1) * IntervalMs

\* resolved by the first 'connect' event, at the moment it arrives; rejected at
\* the first tick later than the deadline when no attempt made within the
\* deadline has connected; never pending after deadline plus one interval
C11_Settles ==
    /\ wstatus = "pending" => (connectedAt = NoTime /\ now <= DeadlineMs + IntervalMs)
    /\ wstatus = "resolved"
          => /\ connectedAt # NoTime /\ settledAt = connectedAt
             /\ connAttempt <= DeadlineMs
             /\ settledAt <= connAttempt + SocketTimeoutMs
    /\ wstatus = "rejected"
          => /\ settledAt > DeadlineMs /\ settledAt <= DeadlineMs + IntervalMs
             /\ connectedAt # NoTime => connAttempt > DeadlineMs
    /\ wstatus # "pending" => settledAt <= DeadlineMs + IntervalMs

RunOver(c) == outcome # "none" /\ pc[c] \in {"reconcile", "done"}

\* the desired end state: default database, privileged role, every desired
\* extension the catalog offers enabled
Reconciled(sv) == sv.db /\ sv.superuser /\ sv.enabled = catalog

\* the lines startPostgres itself logs
SequenceLines ==
    {L("Set permissions 0700"), L("Checking for missing data directories"), L("Re-initializing"),
     L("Clearing for fresh init"), L("Initializing database cluster"), L("Initialization complete"),
     L("Warning: Post-startup check failed"), L("Binary not found")}
    \cup {RepairError(d) : d \in RequiredSet}

ReconcilerLog(c) == log[c] \ SequenceLines

AlreadyLines ==
    {L("Database \"postgres\" already exists."), L("PostGIS extension already enabled."),
     L("pgRouting extension already enabled.")}

MadeChangeLines ==
    {L("Created default \"postgres\" database."), L("PostGIS extension enabled successfully."),
     L("pgRouting extension enabled successfully.")}

AttemptLines == {L("Enabling PostGIS extension..."), L("Enabling pgRouting extension...")}

FailureLines ==
    {L("Error: Failed to create database \"postgres\""), L("Warning: Failed to update user privileges"),
     L("No PostGIS-related extensions found in PostgreSQL catalog."),
     L("Failed to enable PostGIS extension"), L("Failed to enable pgRouting extension")}

\* C12 as stated: a run against a reconciled server leaves the server as it was
\* and logs "already enabled/exists" lines only.
C12_OnlyAlreadyLines ==
    \A c \in Calls :
        (RunOver(c) /\ Reconciled(serverAtStart))
            => (server = serverAtStart /\ ReconcilerLog(c) \subseteq AlreadyLines)

\* C12: a run against a reconciled server leaves the server (default database,
\* role privileges, enabled extensions) as it was and logs no line that reports
\* a change; when no command fails it announces no enabling either, and says
\* of the database and of postgis that they already exist / are enabled.
C12_SecondRunChangesNothing ==
    \A c \in Calls :
        (RunOver(c) /\ Reconciled(serverAtStart))
            => /\ server = serverAtStart
               /\ ReconcilerLog(c) \cap MadeChangeLines = {}
               /\ ReconcilerLog(c) \cap FailureLines = {}
                    => /\ ReconcilerLog(c) \cap AttemptLines = {}
                       /\ L("Database \"postgres\" already exists.") \in log[c]
                       /\ "postgis" \in catalog => L("PostGIS extension already enabled.") \in log[c]

\* the second request of a run of the app finds the server reconciled, with
\* both extensions enabled, and says so
C12_Witness ==
    \E c \in Calls :
        /\ ncalls = 2
        /\ pc[c] = "done"
        /\ outcome = "returned"
        /\ Reconciled(serverAtStart)
        /\ server.enabled = Exts
        /\ AlreadyLines \subseteq log[c]

\* ---- C13 (SpecReconcile)
PgroutingLines ==
    {L("pgRouting extension not found (optional)."), L("pgRouting extension already enabled."),
     L("Enabling pgRouting extension..."), L("pgRouting extension enabled successfully."),
     L("Failed to enable pgRouting extension")}

\* C13: a run that logged the failure to check or enable postgis has returned
\* normally and has processed pgrouting.
C13_PostgisFailureDoesNotAbort ==
    \A c \in Calls :
        (RunOver(c) /\ L("Failed to enable PostGIS extension") \in log[c])
            => (outcome = "returned" /\ log[c] \cap PgroutingLines # {})

\* ---- C14 (SpecReconcile)
\* the run has queried the catalog and postgis was not in the answer
Unavailable(c) ==
    RunOver(c) /\ "SELECT pg_available_extensions" \in cmds /\ "postgis" \notin available

EnableCmds == {"CREATE EXTENSION postgis", "CREATE EXTENSION pgrouting"}

NoEnableAndSuccess(c) ==
    /\ cmds \cap EnableCmds = {}
    /\ outcome = "returned"
    /\ pc[c] = "done" => ipcResult[c] = Resolved

\* C14 as stated: with postgis absent from the catalog the run logs both
\* candidate locations, issues no enable command, and the start succeeds.
C14_LogsBothLocations ==
    \A c \in Calls :
        Unavailable(c)
            => /\ \/ {LAt("Checked", Loc1), LAt("Checked", Loc2)} \subseteq log[c]
                  \/ {LAt("Expected at", Loc1), LAt("Expected at", Loc2)} \subseteq log[c]
               /\ NoEnableAndSuccess(c)

\* C14: with postgis absent from the catalog the run logs both candidate
\* locations when postgis.control lies in neither, and otherwise the location
\* where it found the file and the extension directory in use; it issues no
\* enable command, and the start succeeds.
C14_UnavailableIsSkipped ==
    \A c \in Calls :
        Unavailable(c)
            => /\ share.postgis = {}
                    => {LAt("Checked", Loc1), LAt("Checked", Loc2)} \subseteq log[c]
               /\ share.postgis # {}
                    => /\ \E loc \in share.postgis : LAt("PostGIS control file found at", loc) \in log[c]
                       /\ LAt("Extension directory", sharePath) \in log[c]
               /\ NoEnableAndSuccess(c)

\* the catalog offers pgrouting but not postgis, both extension directories
\* exist, pgrouting.control is on disk: nothing is enabled, the start succeeds
C14_Witness ==
    \E c \in Calls :
        /\ Unavailable(c)
        /\ pc[c] = "done"
        /\ catalog = {"pgrouting"}
        /\ share.dir1 /\ share.dir2 = "files" /\ share.postgis = {} /\ share.pgrouting
        /\ server.enabled = {}
        /\ ipcResult[c] = Resolved

\* ---- C19 (SpecReconcile)
Audited(c) == isInitialized[c] \/ initdb[c] = "succeeded"

\* C19: the server is spawned, and the readiness wait and the reconciliation
\* are reached, only after the directory was found valid or initdb exited with
\* 0; initdb is spawned only after the audit; the reconciliation is entered
\* from the readiness wait only, and every reconciliation command is issued
\* inside it, by an invocation whose waitForPort did not time out.
C19_Order ==
    /\ [](\A c \in Calls :
            /\ (pc[c] \in {"waitPort", "reconcile"} \/ serverPid[c] # NoProc) => Audited(c)
            /\ initdb[c] # "none" => pc[c] \notin {"idle", "ensureDir", "repair", "check"})
    /\ [](cmds # {} => \E c \in Calls : pc[c] \in {"reconcile", "done"})
    /\ [][ /\ \A p \in Pids :
                (child[p].state = "none" /\ child'[p].state # "none")
                    => \E c \in Calls : pc[c] = "startServer" /\ Audited(c)
           /\ \A c \in Calls :
                (pc'[c] = "reconcile" /\ pc[c] # "reconcile") => pc[c] = "waitPort"
           /\ (cmds' # cmds /\ cmds' # {})
                => \E c \in Calls : /\ pc[c] = "reconcile"
                                    /\ L("Warning: Post-startup check failed") \notin log[c]
         ]_vars

\* scenario A: empty directory, bootstrap, server, readiness, default database
\* created, role altered, postgis enabled
C19_Witness ==
    \E c \in Calls :
        /\ found[c].dir = {}
        /\ initdb[c] = "succeeded"
        /\ serverPid[c] # NoProc
        /\ pc[c] = "done"
        /\ {L("Created default \"postgres\" database."), L("Ensured \"postgres\" user privileges."),
            L("PostGIS extension enabled successfully.")} \subseteq log[c]
        /\ server.db /\ server.superuser /\ "postgis" \in server.enabled

\* ---- C16 (SpecAdmin)
\* C16: with pgAdmin4.py in neither the expected layout nor reachable by the
\* fallback search, no 'pgadmin' child is ever spawned and no 'pgadmin' record
\* registered, and a record kept under 'postgres' is a child of the primary
\* service.
C16_MissingEntrypointDisablesCompanion ==
    entry = "missing"
        => /\ \A p \in Pids : child[p].id # "pgadmin"
           /\ ~ Tracked("pgadmin")
           /\ adminPid = NoProc
           /\ Tracked("postgres") => child[processes["postgres"]].id = "postgres"

\* ---- C25 (SpecAPI)
\* a child of ProcessManager.start whose operating-system process is alive
Live(p) == child[p].state = "running"

\* C25: no orphan: every live child spawned by ProcessManager.start is the
\* child recorded in the table under its id, or has been sent the
\* termination signal.
C25_NoOrphan ==
    \A p \in Pids : Live(p) => (processes[child[p].id] = p \/ child[p].signalled)

\* ---- C26 (SpecAPI)
\* C26: at most one process per service id is alive at any time.
C26_OneLiveProcessPerId ==
    \A p, q \in Pids : (Live(p) /\ Live(q) /\ child[p].id = child[q].id) => p = q

\* ---- C22 (SpecReconcile)
\* the enabled-check and the enable command of an extension
ExtCmds(e) ==
    IF e = "postgis" THEN {"SELECT pg_extension postgis", "CREATE EXTENSION postgis"}
    ELSE {"SELECT pg_extension pgrouting", "CREATE EXTENSION pgrouting"}

\* C22: availability is decided by the catalog: an enabled-check or enable
\* command of a desired extension is issued only if the catalog query of the
\* run reported that extension available.
C22_CatalogDecides ==
    \A e \in Exts : (ExtCmds(e) \cap cmds # {}) => e \in available

\* ---- C23 (SpecReconcile)
\* the steps of ensureDatabaseFixed that follow the database section
AfterDatabaseCmds ==
    {"ALTER USER", "SELECT pg_available_extensions"} \cup ExtCmds("postgis") \cup ExtCmds("pgrouting")

\* createdb has answered in the run of invocation c
CreateAnswered(c) == pc[c] \in {"reconcile", "done"} /\ "createdb" \in cmds /\ rpc # "createdb"

CreateFailedLine == L("Error: Failed to create database \"postgres\"")
CreateExistsLine == L("Database \"postgres\" already exists.")

\* C23: after a failed probe, a createdb that fails with "already exists"
\* counts as success (the run goes on to the role alter and the catalog
\* query); after any other createdb failure the run returns before the role
\* and extension steps.
C23_AlreadyExistsIsSuccess ==
    \A c \in Calls :
        /\ (CreateAnswered(c) /\ CreateExistsLine \in log[c])
              => /\ CreateFailedLine \notin log[c]
                 /\ rpc # "alter" => "ALTER USER" \in cmds
                 /\ rpc \notin {"alter", "query"} => "SELECT pg_available_extensions" \in cmds
        /\ (CreateAnswered(c) /\ CreateFailedLine \in log[c])
              => /\ outcome = "returned"
                 /\ cmds \cap AfterDatabaseCmds = {}

C23_Witness ==
    \E c \in Calls :
        /\ RunOver(c) /\ CreateAnswered(c)
        /\ serverAtStart.db
        /\ CreateExistsLine \in log[c]
        /\ {"ALTER USER", "SELECT pg_extension postgis"} \subseteq cmds
        /\ outcome = "returned"

\* ---- C21 (SpecReconcile)
TimeoutWarning == L("Warning: Post-startup check failed")

\* C21: a readiness timeout is a soft failure: the step in which waitForPort
\* rejects only adds the warning to the log and lets the request return
\* success; it signals no process, changes no record of the table, and no
\* command of the reconciler is issued for that request.
C21_TimeoutIsSoft ==
    [][ \A c \in Calls :
            (pc[c] = "waitPort" /\ pc'[c] \notin {"waitPort", "reconcile"})
                => /\ pc'[c] = "done"
                   /\ ipcResult'[c] = Resolved
                   /\ log'[c] = log[c] \cup {TimeoutWarning}
                   /\ processes' = processes
                   /\ child' = child
                   /\ cmds' = {} /\ outcome' = "none" /\ rpc' = "idle"
      ]_vars

\* a request that returned after the timeout, its server still tracked and
\* running unsignalled, the reconciler not entered
C21_Witness ==
    \E c \in Calls :
        /\ pc[c] = "done" /\ TimeoutWarning \in log[c]
        /\ outcome = "none" /\ cmds = {}
        /\ serverPid[c] # NoProc /\ processes["postgres"] = serverPid[c]
        /\ child[serverPid[c]].state = "running" /\ ~ child[serverPid[c]].signalled

\* ---- C28 (Spec)
\* C28: whenever a start-postgres request returns success = true, the
\* 'postgres' service is tracked in the table at that moment.
C28_SuccessMeansTracked ==
    [][ \A c \in Calls :
            (ipcResult[c] # Resolved /\ ipcResult'[c] = Resolved) => processes'["postgres"] # NoProc
      ]_vars

\* ---- C29 (Spec)
\* the server of invocation c is supervised: a live process recorded under
\* 'postgres' (the one this invocation spawned, when it spawned one)
Supervised(c) ==
    /\ processes["postgres"] # NoProc
    /\ child[processes["postgres"]].state = "running"
    /\ serverPid[c] # NoProc => processes["postgres"] = serverPid[c]

\* C29: ensureDatabaseFixed is invoked by a startPostgres call only while
\* its server process is tracked and has not exited or been stopped.
C29_ReconcilesSupervisedServerOnly ==
    [][ \A c \in Calls : (pc[c] = "waitPort" /\ pc'[c] = "reconcile") => Supervised(c) ]_vars

\* ---- C24 (SpecAdmin)
\* C24: the 'pgadmin' process is spawned only in states where the 'postgres'
\* service is tracked with a live process (a precondition of its readiness
\* having been confirmed).
C24_CompanionNeedsPrimary ==
    [][ (adminPid = NoProc /\ adminPid' # NoProc)
            => (Tracked("postgres") /\ child[processes["postgres"]].state = "running") ]_vars

\* ---- C27 (SpecOverlap)
\* a bootstrap process of some invocation is running on the data directory
BootstrapRunning == \E b \in Calls : initdb[b] \in {"running", "wrote"}

\* a server process started by the program is alive
ServerRunning == \E p \in Pids : child[p].id = "postgres" /\ Live(p)

\* C27: the step that purges the data directory is never taken while a
\* bootstrap process or a server process of this program is running on it.
C27_NoPurgeUnderRunningProcess ==
    [][ \A c \in Calls : (~ purged[c] /\ purged'[c]) => (~ BootstrapRunning /\ ~ ServerRunning) ]_vars

\* ---- C30 (SpecWipe)
\* C30: when wipe-data has removed the data directory, every child that was
\* tracked when the wipe began has closed, and no bootstrap or server process
\* is running on the directory.
C30_WipeAfterExit ==
    wipe = "removed"
        => /\ \A p \in wipeTracked : child[p].state = "closed"
           /\ ~ BootstrapRunning
           /\ ~ ServerRunning

====
